---------------------------- MODULE Spec2Model ----------------------------
(***************************************************************************)
(* Pixelart.os: the frame transform (utils/imageFilters, src/unnamed/      *)
(* part_000) and the playback/export driver (src/App.tsx).                 *)
(*                                                                         *)
(* Numbers.  The transform computes in IEEE doubles; the model computes    *)
(* the same formulas in exact rational arithmetic, every comparison        *)
(* cross-multiplied into integers that stay below 2^31.  Luminance and     *)
(* thresholds are carried on the scale 255*GrayScale (GrayScale units per  *)
(* 8-bit step).                                                            *)
(***************************************************************************)
EXTENDS Integers, Sequences, FiniteSets, TLC

VARIABLES
  \* ---- one call of applyFiltersToCanvas, step by step (SpecTransform)
  tpc,          \* position in applyFiltersToCanvas
  tsource,      \* the source argument: [width, height, pat]
  tsettings,    \* the settings argument
  tempCanvas,   \* the temporary processing canvas, NoCanvas before line 33
  tdata,        \* imageData.data as a function of the cell <<x, y>>
  outputCanvas, \* the outputCanvas argument: [width, height, px]
  terr,         \* the exception that ended the call, "none" otherwise
  trand,        \* where this call's Math.random() draws start
  \* ---- the App component and its environment (Spec)
  settings,          \* useState settings
  settingsIsDefault, \* whether settings is the DEFAULT_SETTINGS object itself
  mediaState,        \* useState mediaState
  isVideoReady,      \* useState isVideoReady
  originalImageRef,  \* originalImageRef.current: the URL of the decoded image, NoUrl for null
  requestRef,        \* requestRef.current: the last requestAnimationFrame id, 0 for null
  rafPending,        \* scheduled animation-frame callbacks: [id, cb]
  debounceTimers,    \* pending setTimeout callbacks of the debounce effect: [id, settings]
  effectTimeout,     \* the timeout id the debounce effect's cleanup clears, 0 for no cleanup
  blobs,             \* blobs[u]: the file behind object URL u, in creation order
  revoked,           \* object URLs passed to URL.revokeObjectURL
  pendingLoads,      \* images whose onload has not fired: [url, settings]
  videos,            \* the video elements created so far, by their src URL
  canvasRef,         \* canvasRef.current, the presentation canvas
  recorders,         \* MediaRecorder objects: [id, state]
  endedListeners,    \* registered 'ended' listeners: [video, recorder]
  progressIntervals, \* running setInterval timers of exportMedia: [id, video]
  mounted,           \* whether the App component is mounted
  isAiProcessing,    \* useState isAiProcessing
  aiPending          \* whether a call of analyzeImageStyle is awaited by runAiAnalysis

tvars == <<tpc, tsource, tsettings, tempCanvas, tdata, outputCanvas, terr, trand>>

dvars == <<settings, settingsIsDefault, mediaState, isVideoReady, originalImageRef,
           requestRef, rafPending, debounceTimers, effectTimeout, blobs, revoked,
           pendingLoads, videos, canvasRef, recorders, endedListeners,
           progressIntervals, mounted, isAiProcessing, aiPending>>

\* the variables only teardown and runAiAnalysis change
xvars == <<mounted, isAiProcessing, aiPending>>

vars == <<tvars, dvars>>

(***************************************************************************)
(* Bounds of the checked instances.                                        *)
(***************************************************************************)
MaxDim == 4           \* source width and height range over 0..MaxDim

(***************************************************************************)
(* types.ts                                                                *)
(***************************************************************************)
\* DitherMode; "OTHER" stands for any value outside the enum
DitherMode == {"BAYER", "THRESHOLD", "HALFTONE", "STOCHASTIC"}

AnyMode == DitherMode \cup {"OTHER"}

(***************************************************************************)
(* utils/imageFilters                                                      *)
(***************************************************************************)
\* BAYER_4X4 before the division by 16 (rows y % 4, columns x % 4)
BAYER_4X4 ==
  << <<0, 8, 2, 10>>,
     <<12, 4, 14, 6>>,
     <<3, 11, 1, 9>>,
     <<15, 7, 13, 5>> >>

\* parseInt of one hexadecimal digit
HexDigit(c) ==
  CASE c = "0" -> 0 [] c = "1" -> 1 [] c = "2" -> 2 [] c = "3" -> 3
    [] c = "4" -> 4 [] c = "5" -> 5 [] c = "6" -> 6 [] c = "7" -> 7
    [] c = "8" -> 8 [] c = "9" -> 9
    [] c \in {"a", "A"} -> 10 [] c \in {"b", "B"} -> 11
    [] c \in {"c", "C"} -> 12 [] c \in {"d", "D"} -> 13
    [] c \in {"e", "E"} -> 14 [] c \in {"f", "F"} -> 15

\* hexToRgb: hex is the string "#rrggbb" as its sequence of characters;
\* hex.slice(1, 3) is characters 2 and 3 of the 1-based sequence
hexToRgb(hex) ==
  [r |-> 16 * HexDigit(hex[2]) + HexDigit(hex[3]),
   g |-> 16 * HexDigit(hex[4]) + HexDigit(hex[5]),
   b |-> 16 * HexDigit(hex[6]) + HexDigit(hex[7])]


\* 1000 * (0.299 * r + 0.587 * g + 0.114 * b) of the unadjusted channels
LumaSum(px) == 299 * px.r + 587 * px.g + 114 * px.b

\* 1000 * d + e > 0, for 0 <= e < 10^6, without forming 1000 * d
Pos1000(d, e) ==
  IF d >= 0 THEN d > 0 \/ e > 0
  ELSE (0 - d) <= 998 /\ e > 1000 * (0 - d)

\* Lines 45, 55-59: the unclamped luminance of px after contrast and brightness,
\*   gray = (f * (L - 128) + 128 + brightness) / 255,
\*   f = contrastFactor = 259 * (contrast + 255) / (255 * (259 - contrast)),
\*   L = LumaSum(px) / 1000
\* (the three weights sum to 1, so the channel-wise adjustment of lines 55-57
\* commutes with the weighted sum of line 59), compared with tn / (255 * 40):
\*   gray > tn / 10200  <=>  40 * P * U > 1000 * 255 * k * (tn - 40 * (128 + brightness))
\* with P = 259 * (contrast + 255), U = LumaSum(px) - 128000, k = 259 - contrast > 0.
RawGrayGT(px, s, tn) ==
  LET P == 259 * (s.contrast + 255)
      k == 259 - s.contrast
      U == LumaSum(px) - 128000
      q == U \div 1000
      m == U % 1000
      A == 40 * P
      a == A \div 1000
      b == A % 1000
      R == 255 * k * (tn - 40 * (128 + s.brightness))
  IN  Pos1000(A * q + a * m - R, b * m)

\* Lines 45-60 for contrast = 259, where line 45 divides by zero and
\* contrastFactor is +Infinity: a channel above 128 becomes +Infinity, one below
\* 128 -Infinity and one equal to 128 NaN (Infinity * 0).  gray is +Infinity,
\* clamped to 1, if all three are above 128, -Infinity, clamped to 0, if all
\* three are below, and NaN otherwise, which no comparison finds greater.
DegenerateGrayGT(px, tn) ==
  IF px.r > 128 /\ px.g > 128 /\ px.b > 128 THEN 10200 > tn
  ELSE IF px.r < 128 /\ px.g < 128 /\ px.b < 128 THEN 0 > tn
  ELSE FALSE

\* as GrayGT, with the boundary counted as greater
GrayGE(px, s, tn) ==
  IF s.contrast = 259 THEN DegenerateGrayGT(px, tn)
  ELSE 10200 >= tn /\ (0 >= tn \/ RawGrayGT(px, s, tn - 1))

\* Line 60 and the comparisons of lines 65-77: Math.min(1, Math.max(0, gray)) > tn / 10200
GrayGT(px, s, tn) ==
  IF s.contrast = 259 THEN DegenerateGrayGT(px, tn)
  ELSE 10200 > tn /\ (0 > tn \/ RawGrayGT(px, s, tn))

\* Lines 68-70: Math.sqrt(dx * dx + dy * dy) * dotScale on the scale 255 * 40, with
\* dx = (x % 2) / 2 - 0.5, dy = (y % 2) / 2 - 0.5 and dotScale in tenths; the
\* irrational 10200 * sqrt(0.5) / 10 = 721.2489... is rounded to the nearest unit
HalftoneDist(x, y, dotScale) ==
  LET evens == (IF x % 2 = 0 THEN 1 ELSE 0) + (IF y % 2 = 0 THEN 1 ELSE 0)
  IN  CASE evens = 0 -> 0
        [] evens = 1 -> 510 * dotScale
        [] evens = 2 -> (721249 * dotScale + 500) \div 1000

\* Lines 62-79: the threshold surface of the mode at cell (x, y), on the scale
\* 255 * 40; rnd is the value of Math.random() in hundredths (a multiple of 5)
ThresholdSurface(s, x, y, rnd) ==
  CASE s.mode = "BAYER" -> 510 * BAYER_4X4[(y % 4) + 1][(x % 4) + 1] + 8 * s.threshold
    [] s.mode = "HALFTONE" -> HalftoneDist(x, y, s.dotScale) + 8 * s.threshold
    [] s.mode = "STOCHASTIC" -> (612 * rnd) \div 10 + 16 * s.threshold
    [] OTHER -> 40 * s.threshold

\* as OutputBit, with line 81 left out
OutputBitNoInvert(px, s, x, y, rnd) ==
  IF GrayGT(px, s, ThresholdSurface(s, x, y, rnd)) THEN 1 ELSE 0

\* Lines 62-81: the output bit of one pixel, after invert
OutputBit(px, s, x, y, rnd) ==
  LET output == IF GrayGT(px, s, ThresholdSurface(s, x, y, rnd)) THEN 1 ELSE 0
  IN  IF s.invert THEN 1 - output ELSE output

\* as PaletteMap, leaving the source pixel's colour in place when the bit is 0
PaletteMapKeepsSource(px, bit, s) ==
  LET finalColor == IF bit = 1 THEN hexToRgb(s.colorB) ELSE px
  IN  [r |-> finalColor.r, g |-> finalColor.g, b |-> finalColor.b, a |-> 255]

\* Lines 82-86: the palette colour of an output bit, alpha forced to 255
PaletteMap(px, bit, s) ==
  LET finalColor == IF bit = 1 THEN hexToRgb(s.colorB) ELSE hexToRgb(s.colorA)
  IN  [r |-> finalColor.r, g |-> finalColor.g, b |-> finalColor.b, a |-> 255]

\* Lines 28-30: scale = 1 / pixelSize, w = Math.floor(sourceWidth * scale).  For
\* integer pixelSize in 1..24 and the widths modelled the double product floors
\* to the integer quotient.
WorkingSize(dim, pixelSize) == dim \div pixelSize


\* PRESETS of App.tsx (Mono and GameBoy), as the colorA and colorB strings
PRESETS ==
  << [a |-> <<"#", "0", "0", "0", "0", "0", "0">>, b |-> <<"#", "F", "F", "F", "F", "F", "F">>],
     [a |-> <<"#", "0", "f", "3", "8", "0", "f">>, b |-> <<"#", "8", "b", "a", "c", "0", "f">>] >>

\* RGBA samples a decoded source can hold
Samples ==
  << [r |-> 0, g |-> 0, b |-> 0, a |-> 255],
     [r |-> 128, g |-> 128, b |-> 128, a |-> 255],
     [r |-> 255, g |-> 255, b |-> 255, a |-> 255],
     [r |-> 200, g |-> 30, b |-> 90, a |-> 128] >>

\* values of Math.random() in hundredths
RandSamples == <<0, 50, 95>>

\* Line 73: Math.random() at pixel index p of a call whose draws start at seed
RandomAt(seed, p) == RandSamples[((seed + p) % Len(RandSamples)) + 1]

\* Lines 39-41: tempCtx.drawImage(source, 0, 0, w, h) and getImageData(0, 0, w, h).
\* The platform's resampling decides the w * h pixels; a source names them by a
\* pattern pat = [base, sx, sy] over Samples (sx = sy = 0: a solid source, which
\* every resampling filter leaves solid).  Pixel index p = i / 4 is row-major.
DrawnData(source, w, h) ==
  [p \in 1..(w * h) |->
     LET x == (p - 1) % w
         y == (p - 1) \div w
     IN  Samples[((source.pat.base + source.pat.sx * x + source.pat.sy * y) % Len(Samples)) + 1]]

\* Lines 47-87: the per-pixel loop over imageData.data, pixel index i / 4 = p - 1,
\* x = (i / 4) % w, y = Math.floor((i / 4) / w)
ProcessedData(data, w, s, seed) ==
  [p \in 1..Len(data) |->
     LET x == (p - 1) % w
         y == (p - 1) \div w
     IN  PaletteMap(data[p], OutputBit(data[p], s, x, y, RandomAt(seed, p - 1)), s)]

\* as UpscaledPixels with imageSmoothingEnabled left true: an output pixel between
\* two working cells blends them
UpscaledSmoothed(data, w, h, sw, sh) ==
  [P \in 1..(sw * sh) |->
     LET X == (P - 1) % sw
         Y == (P - 1) \div sw
         c0 == data[(((2 * Y + 1) * h) \div (2 * sh)) * w + (((2 * X + 1) * w) \div (2 * sw)) + 1]
         c1 == data[(((2 * Y + 1) * h) \div (2 * sh)) * w + (((2 * X + 2) * w - 1) \div (2 * sw)) + 1]
     IN  [r |-> (c0.r + c1.r) \div 2, g |-> (c0.g + c1.g) \div 2,
          b |-> (c0.b + c1.b) \div 2, a |-> 255]]

\* Lines 95-96: outCtx.drawImage(tempCanvas, 0, 0, sourceWidth, sourceHeight) with
\* imageSmoothingEnabled = false: output pixel (X, Y) takes the working cell under
\* its centre, (floor((X + 1/2) * w / sw), floor((Y + 1/2) * h / sh))
UpscaledPixels(data, w, h, sw, sh) ==
  [P \in 1..(sw * sh) |->
     LET X == (P - 1) % sw
         Y == (P - 1) \div sw
     IN  data[(((2 * Y + 1) * h) \div (2 * sh)) * w + (((2 * X + 1) * w) \div (2 * sw)) + 1]]

\* as OutputSize, sizing the output to the working buffer times pixelSize
OutputSizeFromBlocks(dim, pixelSize) == WorkingSize(dim, pixelSize) * pixelSize

\* Lines 91-92: outputCanvas.width = sourceWidth (height likewise)
OutputSize(dim, pixelSize) == dim

\* canvas.getContext('2d').getImageData(0, 0, w, h): the platform throws
\* IndexSizeError when w or h is 0 (line 40)
GetImageDataThrows(w, h) == w = 0 \/ h = 0

NoCanvas == [width |-> -1, height |-> -1]

\* a canvas element before anything is drawn on it (the platform's 300 x 150)
BlankCanvas == [width |-> 300, height |-> 150, px |-> <<>>]

(***************************************************************************)
(* applyFiltersToCanvas, one step per statement group.                     *)
(***************************************************************************)
SourcePats == [base : 0..(Len(Samples) - 1), sx : {0, 1}, sy : {0}] \cup
              [base : 0..(Len(Samples) - 1), sx : {1}, sy : {2}]

TSources == [width : 0..MaxDim, height : 0..MaxDim, pat : SourcePats]

TSettings ==
  UNION {[pixelSize : 1..(MaxDim + 1), contrast : {-100, 0, 40}, brightness : {0},
          threshold : {0, 128}, mode : AnyMode, invert : BOOLEAN, dotScale : {12},
          colorA : {PRESETS[i].a}, colorB : {PRESETS[i].b}] : i \in 1..Len(PRESETS)}

TInit ==
  /\ tpc = "start"
  /\ tsource \in TSources
  /\ tsettings \in TSettings
  /\ trand \in (IF tsettings.mode = "STOCHASTIC" THEN 0..(Len(RandSamples) - 1) ELSE {0})
  /\ tempCanvas = NoCanvas
  /\ tdata = <<>>
  /\ outputCanvas = BlankCanvas
  /\ terr = "none"

\* Lines 28-35: the temporary canvas of the working size
TCreateTemp ==
  /\ tpc = "start"
  /\ tempCanvas' = [width |-> WorkingSize(tsource.width, tsettings.pixelSize),
                    height |-> WorkingSize(tsource.height, tsettings.pixelSize)]
  /\ tpc' = "temp"
  /\ UNCHANGED <<tsource, tsettings, trand, tdata, outputCanvas, terr, dvars>>

\* Lines 39-41: drawImage and getImageData; the call ends here when the platform throws
TGetImageData ==
  /\ tpc = "temp"
  /\ IF GetImageDataThrows(tempCanvas.width, tempCanvas.height)
     THEN /\ terr' = "IndexSizeError"
          /\ tpc' = "thrown"
          /\ UNCHANGED tdata
     ELSE /\ tdata' = DrawnData(tsource, tempCanvas.width, tempCanvas.height)
          /\ tpc' = "data"
          /\ UNCHANGED terr
  /\ UNCHANGED <<tsource, tsettings, trand, tempCanvas, outputCanvas, dvars>>

\* Lines 42-87: the loop over the working buffer
TProcessPixels ==
  /\ tpc = "data"
  /\ tdata' = ProcessedData(tdata, tempCanvas.width, tsettings, trand)
  /\ tpc' = "processed"
  /\ UNCHANGED <<tsource, tsettings, trand, tempCanvas, outputCanvas, terr, dvars>>

\* Lines 89-97: putImageData, then the output canvas resized and drawn
TUpscale ==
  /\ tpc = "processed"
  /\ outputCanvas' =
       [width |-> OutputSize(tsource.width, tsettings.pixelSize),
        height |-> OutputSize(tsource.height, tsettings.pixelSize),
        px |-> UpscaledPixels(tdata, tempCanvas.width, tempCanvas.height,
                              tsource.width, tsource.height)]
  /\ tpc' = "done"
  /\ UNCHANGED <<tsource, tsettings, trand, tempCanvas, tdata, terr, dvars>>

TNext == TCreateTemp \/ TGetImageData \/ TProcessPixels \/ TUpscale


(***************************************************************************)
(* Claims about applyFiltersToCanvas (SpecTransform).                      *)
(***************************************************************************)
\* C1: whenever applyFiltersToCanvas completes, the output canvas has the source's
\* width and height, whatever pixelSize is.
C1_OutputHasSourceDimensions ==
  tpc = "done" =>
    /\ outputCanvas.width = tsource.width
    /\ outputCanvas.height = tsource.height
    /\ Len(outputCanvas.px) = tsource.width * tsource.height

\* C1 witness: a completed call whose pixelSize does not divide the source width,
\* so the working buffer times pixelSize is smaller than the source.
C1_Witness ==
  /\ tpc = "done"
  /\ tsettings.pixelSize = 2
  /\ tsource.width = 3
  /\ tempCanvas.width = 1
  /\ outputCanvas.width = 3

\* the palette of a configuration as RGBA values, read off the PRESETS table by hand
PaletteRGBA(s) ==
  IF s.colorA = PRESETS[1].a
  THEN {[r |-> 0, g |-> 0, b |-> 0, a |-> 255], [r |-> 255, g |-> 255, b |-> 255, a |-> 255]}
  ELSE {[r |-> 15, g |-> 56, b |-> 15, a |-> 255], [r |-> 139, g |-> 172, b |-> 15, a |-> 255]}

\* C2: in every non-stochastic mode (the unrecognized one included) every pixel of
\* the processed working buffer and of the upscaled output is colorA or colorB with
\* alpha 255.
C2_PaletteContainment ==
  tsettings.mode # "STOCHASTIC" =>
    /\ tpc \in {"processed", "done"} =>
         \A p \in 1..Len(tdata) : tdata[p] \in PaletteRGBA(tsettings)
    /\ tpc = "done" =>
         \A p \in 1..Len(outputCanvas.px) : outputCanvas.px[p] \in PaletteRGBA(tsettings)

\* C2 witness: a completed, upscaled non-stochastic call on a source with a
\* translucent coloured pixel whose output shows both palette colours.
C2_Witness ==
  /\ tpc = "done"
  /\ tsettings.mode = "HALFTONE"
  /\ tempCanvas.width < outputCanvas.width
  /\ tsource.pat.base = 3
  /\ \E p, q \in 1..Len(outputCanvas.px) : outputCanvas.px[p] # outputCanvas.px[q]

\* the inputs C3 calls invalid
DegenerateInput ==
  \/ tsource.width <= 0
  \/ tsource.height <= 0
  \/ tsettings.pixelSize < 1
  \/ tsettings.pixelSize > tsource.width
  \/ tsettings.pixelSize > tsource.height

\* C3 (as claimed): on a non-positive source dimension or a pixelSize that floors a
\* dimension to 0, the call creates no zero-area working buffer and ends with an
\* InvalidDimensions error.
C3_InvalidDimensionsRaised ==
  (DegenerateInput /\ tpc # "start") =>
    /\ tempCanvas = NoCanvas
    /\ terr = "InvalidDimensions"


(***************************************************************************)
(* The whole of applyFiltersToCanvas and processImage, as the driver calls *)
(* them.                                                                   *)
(***************************************************************************)
\* applyFiltersToCanvas(source, sourceWidth, sourceHeight, settings, outputCanvas):
\* the exception it ends with and the output canvas afterwards (untouched when
\* the call throws before line 91)
applyFiltersToCanvas(source, s, seed, canvas) ==
  LET w == WorkingSize(source.width, s.pixelSize)
      h == WorkingSize(source.height, s.pixelSize)
  IN  IF GetImageDataThrows(w, h)
      THEN [err |-> "IndexSizeError", canvas |-> canvas]
      ELSE [err |-> "none",
            canvas |-> [width |-> OutputSize(source.width, s.pixelSize),
                        height |-> OutputSize(source.height, s.pixelSize),
                        px |-> UpscaledPixels(ProcessedData(DrawnData(source, w, h), w, s, seed),
                                              w, h, source.width, source.height)]]

\* canvas.toDataURL('image/png'): the PNG data URL of a canvas, lossless, so the
\* URL determines and is determined by the canvas's size and pixels
toDataURL(canvas) ==
  [mime |-> "image/png", width |-> canvas.width, height |-> canvas.height, px |-> canvas.px]

\* processImage(image, settings): the promise's outcome
processImage(image, s) ==
  LET res == applyFiltersToCanvas(image, s, 0, BlankCanvas)
  IN  [err |-> res.err, url |-> toDataURL(res.canvas)]


(***************************************************************************)
(* App.tsx: the component's state, its effects and its handlers.  A        *)
(* handler and the render, effect cleanups and effects it causes are one   *)
(* step: nothing else runs on the page's single thread in between.         *)
(***************************************************************************)
MaxUploads == 2       \* object URLs handleFileUpload may create in a run
ClipLength == 2       \* the video's duration, in playback steps

\* null for a URL, an image reference or a timer id
NoUrl == 0

\* the attribute `loop` of the <video> element
VideoLoop == TRUE

DEFAULT_SETTINGS ==
  [pixelSize |-> 4, contrast |-> 40, brightness |-> 0, threshold |-> 128,
   mode |-> "BAYER", invert |-> FALSE, dotScale |-> 12,
   colorA |-> PRESETS[1].a, colorB |-> PRESETS[1].b]

\* the values the Pixel Size slider (min 1, max 24) is moved to
PixelSizeStops == {2, 4}

\* the files the user picks from: two stills and a clip, each with the pixels
\* the platform decodes from it
Files ==
  << [type |-> "image", width |-> 4, height |-> 4, pat |-> [base |-> 1, sx |-> 0, sy |-> 0]],
     [type |-> "image", width |-> 5, height |-> 4, pat |-> [base |-> 0, sx |-> 0, sy |-> 0]],
     [type |-> "video", width |-> 3, height |-> 3, pat |-> [base |-> 2, sx |-> 0, sy |-> 0]] >>

\* processedUrl: null
NoData == [mime |-> "null", width |-> 0, height |-> 0, px |-> <<>>]

\* a <video> element right after it is mounted
NewVideo == [loaded |-> FALSE, paused |-> TRUE, currentTime |-> 0,
             playingEvt |-> FALSE, ended |-> FALSE]

\* videoRef.current: the URL of the mounted <video> (rendered when sourceType is
\* 'video' and originalUrl is set, keyed by originalUrl), NoUrl for null
VideoRef(ms) ==
  IF mounted /\ ms.sourceType = "video" /\ ms.originalUrl # NoUrl THEN ms.originalUrl ELSE NoUrl

\* a <video> element removed from the document is paused by the platform
Unmounted(vs, shown) ==
  [u \in DOMAIN vs |->
     IF u = shown THEN vs[u] ELSE [vs[u] EXCEPT !.paused = TRUE, !.playingEvt = FALSE]]

\* the smallest id not in use (the platform hands out ids that are not in use)
FreshId(used) ==
  CHOOSE n \in 1..(Cardinality(used) + 1) : n \notin used /\ \A m \in 1..(n - 1) : m \in used

\* updateVideoFrame as created by a render: what its closure captured
Closure(s, st, ready) == [settings |-> s, sourceType |-> st, isVideoReady |-> ready]

\* as LoopEffect, with the cleanup's cancelAnimationFrame left out
LoopEffectNoCancel(changed, raf, ref, cb) ==
  IF ~changed THEN [raf |-> raf, ref |-> ref]
  ELSE LET id == FreshId({r.id : r \in raf})
       IN  IF cb.sourceType = "video" /\ cb.isVideoReady
           THEN [raf |-> raf \cup {[id |-> id, cb |-> cb]}, ref |-> id]
           ELSE [raf |-> raf, ref |-> ref]

\* as LoopEffect, requesting a frame whatever the source is
LoopEffectAlwaysRequests(changed, raf, ref, cb) ==
  IF ~changed THEN [raf |-> raf, ref |-> ref]
  ELSE LET kept == {r \in raf : r.id # ref}
           id == FreshId({r.id : r \in kept})
       IN  [raf |-> kept \cup {[id |-> id, cb |-> cb]}, ref |-> id]

\* Lines 137-144, when the effect's dependencies changed: the previous cleanup
\* cancels requestRef.current, then the effect requests a frame for a ready video
LoopEffect(changed, raf, ref, cb) ==
  IF ~changed THEN [raf |-> raf, ref |-> ref]
  ELSE LET kept == {r \in raf : r.id # ref}
           id == FreshId({r.id : r \in kept})
       IN  IF cb.sourceType = "video" /\ cb.isVideoReady
           THEN [raf |-> kept \cup {[id |-> id, cb |-> cb]}, ref |-> id]
           ELSE [raf |-> kept, ref |-> ref]

\* as DebounceEffect, with the cleanup's clearTimeout left out
DebounceEffectNoClear(changed, timers, eff, s, st, img) ==
  IF ~changed THEN [timers |-> timers, eff |-> eff]
  ELSE LET id == FreshId({t.id : t \in timers})
       IN  IF img # NoUrl /\ st = "image"
           THEN [timers |-> timers \cup {[id |-> id, settings |-> s]}, eff |-> id]
           ELSE [timers |-> timers, eff |-> 0]

\* Lines 146-153, when the effect's dependencies changed: the previous cleanup (if
\* the previous run returned one) clears its timeout, then the effect arms a new
\* 50 ms timeout when an image is loaded and shown
DebounceEffect(changed, timers, eff, s, st, img) ==
  IF ~changed THEN [timers |-> timers, eff |-> eff]
  ELSE LET kept == {t \in timers : t.id # eff}
           id == FreshId({t.id : t \in kept})
       IN  IF img # NoUrl /\ st = "image"
           THEN [timers |-> kept \cup {[id |-> id, settings |-> s]}, eff |-> id]
           ELSE [timers |-> kept, eff |-> 0]

\* The render after a handler and the effects it runs.  fresh: setSettings made a
\* new settings object; ns, nst, nr, nimg: settings, mediaState.sourceType,
\* isVideoReady and originalImageRef.current after the handler.
Commit(fresh, ns, nst, nr, nimg, rafBase, timersBase) ==
  LET loopChanged == fresh \/ nst # mediaState.sourceType \/ nr # isVideoReady
      debChanged == fresh \/ nst # mediaState.sourceType
      l == LoopEffect(loopChanged, rafBase, requestRef, Closure(ns, nst, nr))
      d == DebounceEffect(debChanged, timersBase, effectTimeout, ns, nst, nimg)
  IN  /\ rafPending' = l.raf
      /\ requestRef' = l.ref
      /\ debounceTimers' = d.timers
      /\ effectTimeout' = d.eff

\* Lines 49-66: the component as mounted
DInit ==
  /\ settings = DEFAULT_SETTINGS
  /\ settingsIsDefault = TRUE
  /\ mediaState = [sourceType |-> "null", originalUrl |-> NoUrl, processedUrl |-> NoData,
                   isLoading |-> FALSE, isExporting |-> FALSE, exportProgress |-> 0]
  /\ isVideoReady = FALSE
  /\ originalImageRef = NoUrl
  /\ requestRef = 0
  /\ rafPending = {}
  /\ debounceTimers = {}
  /\ effectTimeout = 0
  /\ blobs = <<>>
  /\ revoked = {}
  /\ pendingLoads = {}
  /\ videos = <<>>
  /\ canvasRef = BlankCanvas
  /\ recorders = {}
  /\ endedListeners = {}
  /\ progressIntervals = {}
  /\ mounted = TRUE
  /\ isAiProcessing = FALSE
  /\ aiPending = FALSE

\* Lines 68-107: handleFileUpload for file f
handleFileUpload(f) ==
  /\ mounted
  /\ Len(blobs) < MaxUploads
  /\ LET url == Len(blobs) + 1
     IN  /\ blobs' = Append(blobs, f)
         /\ revoked' = IF mediaState.originalUrl # NoUrl
                       THEN revoked \cup {mediaState.originalUrl} ELSE revoked
         /\ isVideoReady' = FALSE
         /\ IF Files[f].type = "video"
            THEN /\ mediaState' = [sourceType |-> "video", originalUrl |-> url,
                                   processedUrl |-> NoData, isLoading |-> FALSE,
                                   isExporting |-> FALSE, exportProgress |-> 0]
                 /\ videos' = [u \in DOMAIN videos \cup {url} |->
                                 IF u = url THEN NewVideo ELSE Unmounted(videos, url)[u]]
                 /\ UNCHANGED pendingLoads
                 /\ Commit(FALSE, settings, "video", FALSE, originalImageRef,
                           rafPending, debounceTimers)
            ELSE /\ pendingLoads' = pendingLoads \cup {[url |-> url, settings |-> settings]}
                 /\ UNCHANGED <<mediaState, videos>>
                 /\ Commit(FALSE, settings, mediaState.sourceType, FALSE, originalImageRef,
                           rafPending, debounceTimers)
  /\ UNCHANGED <<settings, settingsIsDefault, originalImageRef, canvasRef, recorders,
                 endedListeners, progressIntervals, tvars, xvars>>

\* Lines 109-118: triggerImageProcessing(img, currentSettings) run to its end (the
\* continuation after await is a microtask of the same task): mediaState afterwards
triggerImageProcessing(ms, img, currentSettings) ==
  LET result == processImage(Files[blobs[img]], currentSettings)
  IN  IF result.err = "none"
      THEN [ms EXCEPT !.processedUrl = result.url, !.isLoading = FALSE]
      ELSE [ms EXCEPT !.isLoading = FALSE]

\* Lines 93-104: img.onload of a pending load l
imgOnload(l) ==
  /\ mounted
  /\ l \in pendingLoads
  /\ pendingLoads' = pendingLoads \ {l}
  /\ originalImageRef' = l.url
  /\ mediaState' = triggerImageProcessing(
                     [sourceType |-> "image", originalUrl |-> l.url, processedUrl |-> NoData,
                      isLoading |-> FALSE, isExporting |-> FALSE, exportProgress |-> 0],
                     l.url, l.settings)
  /\ videos' = Unmounted(videos, NoUrl)
  /\ Commit(FALSE, settings, "image", isVideoReady, l.url, rafPending, debounceTimers)
  /\ UNCHANGED <<settings, settingsIsDefault, isVideoReady, blobs, revoked, canvasRef,
                 recorders, endedListeners, progressIntervals, tvars, xvars>>

\* Lines 92-105: the image fails to decode; no onerror handler is set
imgOnerror(l) ==
  /\ l \in pendingLoads
  /\ pendingLoads' = pendingLoads \ {l}
  /\ UNCHANGED <<settings, settingsIsDefault, mediaState, isVideoReady, originalImageRef,
                 requestRef, rafPending, debounceTimers, effectTimeout, blobs, revoked,
                 videos, canvasRef, recorders, endedListeners, progressIntervals, tvars, xvars>>

\* setSettings with a new object ns, and the render it causes
setSettings(ns) ==
  /\ mounted
  /\ settings' = ns
  /\ settingsIsDefault' = FALSE
  /\ Commit(TRUE, ns, mediaState.sourceType, isVideoReady, originalImageRef,
            rafPending, debounceTimers)
  /\ UNCHANGED <<mediaState, isVideoReady, originalImageRef, blobs, revoked, pendingLoads,
                 videos, canvasRef, recorders, endedListeners, progressIntervals, tvars, xvars>>

\* Line 291: the Pixel Size slider
changePixelSize(v) == setSettings([settings EXCEPT !.pixelSize = v])

\* Line 323: RESET ALL; setting the state to the object it already is renders nothing
resetAll ==
  /\ mounted
  /\ ~settingsIsDefault
  /\ settings' = DEFAULT_SETTINGS
  /\ settingsIsDefault' = TRUE
  /\ Commit(TRUE, DEFAULT_SETTINGS, mediaState.sourceType, isVideoReady, originalImageRef,
            rafPending, debounceTimers)
  /\ UNCHANGED <<mediaState, isVideoReady, originalImageRef, blobs, revoked, pendingLoads,
                 videos, canvasRef, recorders, endedListeners, progressIntervals, tvars, xvars>>

\* Lines 148-150: the debounce timeout t fires
debounceFire(t) ==
  /\ t \in debounceTimers
  /\ debounceTimers' = debounceTimers \ {t}
  /\ mediaState' = triggerImageProcessing(mediaState, originalImageRef, t.settings)
  /\ UNCHANGED <<settings, settingsIsDefault, isVideoReady, originalImageRef, requestRef,
                 rafPending, effectTimeout, blobs, revoked, pendingLoads, videos, canvasRef,
                 recorders, endedListeners, progressIntervals, tvars, xvars>>


\* Lines 351-354: onLoadedData of the mounted <video>: video.play()
videoLoadedData ==
  LET u == VideoRef(mediaState)
  IN  /\ u # NoUrl
      /\ ~videos[u].loaded
      /\ videos' = [videos EXCEPT ![u] = [@ EXCEPT !.loaded = TRUE, !.paused = FALSE,
                                                   !.playingEvt = TRUE]]
      /\ UNCHANGED <<settings, settingsIsDefault, mediaState, isVideoReady, originalImageRef,
                     requestRef, rafPending, debounceTimers, effectTimeout, blobs, revoked,
                     pendingLoads, canvasRef, recorders, endedListeners, progressIntervals, tvars, xvars>>

\* Line 350: onPlaying of the mounted <video>: setIsVideoReady(true)
videoOnPlaying ==
  LET u == VideoRef(mediaState)
  IN  /\ u # NoUrl
      /\ videos[u].playingEvt
      /\ videos' = [videos EXCEPT ![u] = [@ EXCEPT !.playingEvt = FALSE]]
      /\ isVideoReady' = TRUE
      /\ Commit(FALSE, settings, mediaState.sourceType, TRUE, originalImageRef,
                rafPending, debounceTimers)
      /\ UNCHANGED <<settings, settingsIsDefault, mediaState, originalImageRef, blobs, revoked,
                     pendingLoads, canvasRef, recorders, endedListeners, progressIntervals, tvars, xvars>>

\* Lines 205-213 and 218-221: what the 'ended' event of video u does: each onEnded
\* listener stops its recorder and removes itself, and recorder.onstop downloads
\* the clip and resets the export state
AfterEnded(u, ms) ==
  LET stopped == {l.recorder : l \in {k \in endedListeners : k.video = u}}
  IN  [recorders |-> {IF r.id \in stopped THEN [r EXCEPT !.state = "inactive"] ELSE r :
                        r \in recorders},
       listeners |-> {k \in endedListeners : k.video # u},
       mediaState |-> IF stopped = {} THEN ms
                      ELSE [ms EXCEPT !.isExporting = FALSE, !.exportProgress = 0]]

\* Playback of video u advances by one step.  At the end of the clip a looping
\* element seeks back to the start and fires no 'ended' event (line 347); one
\* without loop ends: it fires 'ended'.
videoAdvance(u) ==
  /\ u \in DOMAIN videos
  /\ videos[u].loaded
  /\ ~videos[u].paused
  /\ ~videos[u].ended
  /\ IF videos[u].currentTime < ClipLength
     THEN /\ videos' = [videos EXCEPT ![u] = [@ EXCEPT !.currentTime = @ + 1]]
          /\ UNCHANGED <<mediaState, recorders, endedListeners>>
     ELSE IF VideoLoop
          THEN /\ videos' = [videos EXCEPT ![u] = [@ EXCEPT !.currentTime = 0]]
               /\ UNCHANGED <<mediaState, recorders, endedListeners>>
          ELSE LET e == AfterEnded(u, mediaState)
               IN  /\ videos' = [videos EXCEPT ![u] = [@ EXCEPT !.ended = TRUE]]
                   /\ mediaState' = e.mediaState
                   /\ recorders' = e.recorders
                   /\ endedListeners' = e.listeners
  /\ UNCHANGED <<settings, settingsIsDefault, isVideoReady, originalImageRef, requestRef,
                 rafPending, debounceTimers, effectTimeout, blobs, revoked, pendingLoads,
                 canvasRef, progressIntervals, tvars, xvars>>

\* Lines 121-135: the animation-frame callback r runs: updateVideoFrame as its
\* closure r.cb captured it.  An exception of applyFiltersToCanvas leaves the
\* callback before line 134.
updateVideoFrame(r) ==
  /\ r \in rafPending
  /\ LET u == VideoRef(mediaState)
         draws == /\ u # NoUrl
                  /\ r.cb.sourceType = "video"
                  /\ r.cb.isVideoReady
                  /\ videos[u].loaded
         res == applyFiltersToCanvas(Files[blobs[u]], r.cb.settings, 0, canvasRef)
         rest == rafPending \ {r}
         id == FreshId({q.id : q \in rest})
     IN  IF draws /\ res.err # "none"
         THEN /\ rafPending' = rest
              /\ UNCHANGED <<requestRef, canvasRef>>
         ELSE /\ canvasRef' = IF draws THEN res.canvas ELSE canvasRef
              /\ rafPending' = rest \cup {[id |-> id, cb |-> r.cb]}
              /\ requestRef' = id
  /\ UNCHANGED <<settings, settingsIsDefault, mediaState, isVideoReady, originalImageRef,
                 debounceTimers, effectTimeout, blobs, revoked, pendingLoads, videos,
                 recorders, endedListeners, progressIntervals, tvars, xvars>>

\* Lines 398-401: the export button is rendered with a source and enabled unless
\* exporting or the video is not ready
ExportEnabled ==
  /\ mounted
  /\ mediaState.originalUrl # NoUrl
  /\ ~mediaState.isExporting
  /\ ~(mediaState.sourceType = "video" /\ ~isVideoReady)

\* Lines 183-188: exportMedia for a still: the processed image is handed to the
\* browser as a download, the component's state stays as it is
exportImage ==
  /\ ExportEnabled
  /\ mediaState.sourceType = "image"
  /\ mediaState.processedUrl # NoData
  /\ UNCHANGED <<settings, settingsIsDefault, mediaState, isVideoReady, originalImageRef,
                 requestRef, rafPending, debounceTimers, effectTimeout, blobs, revoked,
                 pendingLoads, videos, canvasRef, recorders, endedListeners,
                 progressIntervals, tvars, xvars>>

\* what MediaRecorder.isTypeSupported accepts on the platforms considered: both
\* types, WebM without VP9, no WebM at all
CodecSupport ==
  { {"video/webm;codecs=vp9", "video/webm"}, {"video/webm"}, {} }

\* Lines 196-198: the mimeType exportMedia picks on a platform supporting sup
MimeType(sup) ==
  IF "video/webm;codecs=vp9" \in sup THEN "video/webm;codecs=vp9" ELSE "video/webm"

\* Line 201: new MediaRecorder(stream, {mimeType}) throws NotSupportedError for a
\* type the platform cannot record
RecorderThrows(sup) == MimeType(sup) \notin sup

\* as ExportStatements, with playback resumed before the listener and the recorder
ExportStatementsPlayFirst == <<"pause", "seek0", "play", "addEventListener", "start">>

\* Lines 215-225 in program order: video.pause(); video.currentTime = 0;
\* video.addEventListener('ended', onEnded); recorder.start(); video.play()
ExportStatements == <<"pause", "seek0", "addEventListener", "start", "play">>

\* one statement of lines 215-225 on x = [paused, currentTime, playingEvt,
\* listening, recording]
ExportExec(x, stmt) ==
  CASE stmt = "pause" -> [x EXCEPT !.paused = TRUE, !.playingEvt = FALSE]
    [] stmt = "seek0" -> [x EXCEPT !.currentTime = 0]
    [] stmt = "addEventListener" -> [x EXCEPT !.listening = TRUE]
    [] stmt = "start" -> [x EXCEPT !.recording = TRUE]
    [] stmt = "play" -> [x EXCEPT !.paused = FALSE, !.playingEvt = TRUE]

\* x after the first n statements of lines 215-225
RECURSIVE ExportAfter(_, _)
ExportAfter(x, n) ==
  IF n = 0 THEN x ELSE ExportExec(ExportAfter(x, n - 1), ExportStatements[n])

\* the video and the new recorder as exportMedia finds them at line 215
ExportEntry(v) ==
  [paused |-> v.paused, currentTime |-> v.currentTime, playingEvt |-> v.playingEvt,
   listening |-> FALSE, recording |-> FALSE]

\* Lines 189-233: exportMedia for a video on a platform supporting the types sup.
\* The exception of line 201 ends the handler after line 193 has set isExporting.
exportVideo(sup) ==
  LET u == VideoRef(mediaState)
      rid == FreshId({r.id : r \in recorders})
      iid == FreshId({i.id : i \in progressIntervals})
      x == ExportAfter(ExportEntry(videos[u]), Len(ExportStatements))
  IN  /\ ExportEnabled
      /\ mediaState.sourceType = "video"
      /\ u # NoUrl
      /\ mediaState' = [mediaState EXCEPT !.isExporting = TRUE, !.exportProgress = 0]
      /\ IF RecorderThrows(sup)
         THEN UNCHANGED <<recorders, videos, endedListeners, progressIntervals>>
         ELSE /\ recorders' = recorders \cup
                    {[id |-> rid, state |-> IF x.recording THEN "recording" ELSE "inactive"]}
              /\ videos' = [videos EXCEPT ![u] = [@ EXCEPT !.paused = x.paused,
                                                           !.currentTime = x.currentTime,
                                                           !.playingEvt = x.playingEvt]]
              /\ endedListeners' = IF x.listening
                                   THEN endedListeners \cup {[video |-> u, recorder |-> rid]}
                                   ELSE endedListeners
              /\ progressIntervals' = progressIntervals \cup {[id |-> iid, video |-> u]}
      /\ UNCHANGED <<settings, settingsIsDefault, isVideoReady, originalImageRef, requestRef,
                     rafPending, debounceTimers, effectTimeout, blobs, revoked, pendingLoads,
                     canvasRef, tvars, xvars>>

\* Line 229: Math.min(100, Math.floor((video.currentTime / video.duration) * 100))
Progress(currentTime, duration) ==
  LET p == (currentTime * 100) \div duration
  IN  IF p > 100 THEN 100 ELSE p

\* Lines 227-232: the progress interval i fires (video.duration is known once the
\* video has loaded)
progressTick(i) ==
  /\ i \in progressIntervals
  /\ videos[i.video].loaded
  /\ mediaState' = IF mounted
                   THEN [mediaState EXCEPT
                           !.exportProgress = Progress(videos[i.video].currentTime, ClipLength)]
                   ELSE mediaState
  /\ progressIntervals' = IF videos[i.video].ended THEN progressIntervals \ {i}
                          ELSE progressIntervals
  /\ UNCHANGED <<settings, settingsIsDefault, isVideoReady, originalImageRef, requestRef,
                 rafPending, debounceTimers, effectTimeout, blobs, revoked, pendingLoads,
                 videos, canvasRef, recorders, endedListeners, tvars, xvars>>

\* the transform's step variables while the driver runs
TIdle ==
  /\ tpc = "idle"
  /\ tsource = [width |-> 0, height |-> 0, pat |-> [base |-> 0, sx |-> 0, sy |-> 0]]
  /\ tsettings = DEFAULT_SETTINGS
  /\ trand = 0
  /\ tempCanvas = NoCanvas
  /\ tdata = <<>>
  /\ outputCanvas = BlankCanvas
  /\ terr = "none"

Init == DInit /\ TIdle

Next ==
  \/ \E f \in 1..Len(Files) : handleFileUpload(f)
  \/ \E l \in pendingLoads : imgOnload(l)
  \/ \E l \in pendingLoads : imgOnerror(l)
  \/ \E v \in PixelSizeStops : changePixelSize(v)
  \/ resetAll
  \/ \E t \in debounceTimers : debounceFire(t)
  \/ videoLoadedData
  \/ videoOnPlaying
  \/ \E u \in DOMAIN videos : videoAdvance(u)
  \/ \E r \in rafPending : updateVideoFrame(r)
  \/ exportImage
  \/ \E sup \in CodecSupport : exportVideo(sup)
  \/ \E i \in progressIntervals : progressTick(i)

Spec == Init /\ [][Next]_vars

\* Lines 137-153, the cleanups of the two effects when the component is torn
\* down: cancelAnimationFrame(requestRef.current) if it is set, clearTimeout of
\* the debounce timeout.  The <video> element leaves the document with it.
unmount ==
  /\ mounted
  /\ mounted' = FALSE
  /\ rafPending' = {r \in rafPending : r.id # requestRef}
  /\ debounceTimers' = {t \in debounceTimers : t.id # effectTimeout}
  /\ videos' = Unmounted(videos, NoUrl)
  /\ UNCHANGED <<settings, settingsIsDefault, mediaState, isVideoReady, originalImageRef,
                 requestRef, effectTimeout, blobs, revoked, pendingLoads, canvasRef,
                 recorders, endedListeners, progressIntervals, isAiProcessing, aiPending,
                 tvars>>

\* Lines 93-104: img.onload of a pending load l after the teardown: the ref is
\* written, the state setters of the unmounted component do nothing
imgOnloadDetached(l) ==
  /\ ~mounted
  /\ l \in pendingLoads
  /\ pendingLoads' = pendingLoads \ {l}
  /\ originalImageRef' = l.url
  /\ UNCHANGED <<settings, settingsIsDefault, mediaState, isVideoReady, requestRef,
                 rafPending, debounceTimers, effectTimeout, blobs, revoked, videos,
                 canvasRef, recorders, endedListeners, progressIntervals, tvars, xvars>>

NextTeardown ==
  \/ Next
  \/ unmount
  \/ \E l \in pendingLoads : imgOnloadDetached(l)

\* Spec with the teardown of the component
SpecTeardown == Init /\ [][NextTeardown]_vars

\* applyFiltersToCanvas on its own, the component idle
InitTransform ==
  /\ DInit
  /\ TInit

SpecTransform == InitTransform /\ [][TNext]_vars


\* Spec with the scheduling the platform guarantees: playback of an unpaused video
\* advances, and timers, animation frames and queued media events are delivered.
\* User actions and image loads are under no obligation to happen.
FairSpec ==
  /\ Spec
  /\ WF_vars(\E u \in DOMAIN videos : videoAdvance(u))
  /\ WF_vars(\E r \in rafPending : updateVideoFrame(r))
  /\ WF_vars(\E i \in progressIntervals : progressTick(i))
  /\ WF_vars(\E t \in debounceTimers : debounceFire(t))
  /\ WF_vars(videoOnPlaying)

(***************************************************************************)
(* Claims about the driver (Spec, FairSpec).                               *)
(***************************************************************************)
\* the animation-frame callback r, run now, would call applyFiltersToCanvas and
\* get an exception from it
TickThrows(r) ==
  LET u == VideoRef(mediaState)
  IN  /\ u # NoUrl
      /\ r.cb.sourceType = "video"
      /\ r.cb.isVideoReady
      /\ videos[u].loaded
      /\ applyFiltersToCanvas(Files[blobs[u]], r.cb.settings, 0, canvasRef).err # "none"

\* C4 (as claimed): a refresh tick in which the transform throws still schedules
\* the next tick, so the loop of a ready video survives.
C4_LoopSurvivesThrow ==
  [][\A r \in rafPending : (TickThrows(r) /\ updateVideoFrame(r)) => rafPending' # {}]_vars

\* C5 (as claimed), finite form: when playback of the exported video reaches the
\* end of the clip, the export run ends there: the recorders listening for the
\* end of that video are stopped and isExporting is false again.
C5_ExportEndsAtEndOfClip ==
  [][\A u \in DOMAIN videos :
       (/\ u = VideoRef(mediaState)
        /\ mediaState.isExporting
        /\ videos[u].currentTime = ClipLength
        /\ videoAdvance(u))
       => /\ ~mediaState'.isExporting
          /\ \A l \in endedListeners :
               l.video = u => [id |-> l.recorder, state |-> "inactive"] \in recorders']_vars

\* The same as a liveness property of FairSpec: isExporting, once true, becomes
\* false again.
ExportCompletes == mediaState.isExporting ~> ~mediaState.isExporting

\* C6 (as claimed): while one export run lasts, exportProgress never decreases
\* and stays within 0..100.
C6_ProgressMonotone ==
  [][(mediaState.isExporting /\ mediaState'.isExporting) =>
       /\ mediaState'.exportProgress >= mediaState.exportProgress
       /\ mediaState'.exportProgress \in 0..100]_vars

\* C7 (as claimed): for a still, once no debounce timer and no image load is
\* pending, the displayed processedUrl is the transform of the loaded image under
\* the current settings.
C7_DisplayedIsCurrent ==
  (/\ mediaState.sourceType = "image"
   /\ debounceTimers = {}
   /\ pendingLoads = {}) =>
     LET expected == processImage(Files[blobs[originalImageRef]], settings)
     IN  expected.err = "none" => mediaState.processedUrl = expected.url

\* C8: the debounce.  After every step at most one timeout is pending and it is
\* for the current settings (a change cancels the timeout of the change before
\* it); a change of the settings with an image shown leaves exactly one timeout
\* pending; and a timeout that fires runs the transform with the settings that
\* are current when it fires.
C8_Debounced ==
  [][/\ Cardinality(debounceTimers') <= 1
     /\ \A t \in debounceTimers' : t.settings = settings' /\ t.id = effectTimeout'
     /\ (settings' # settings /\ mediaState.sourceType = "image" /\ originalImageRef # NoUrl)
          => Cardinality(debounceTimers') = 1
     /\ \A t \in debounceTimers :
          debounceFire(t) =>
            /\ t.settings = settings
            /\ mediaState' = triggerImageProcessing(mediaState, originalImageRef, settings)]_vars

\* C8 witness: an image is shown, the settings were changed away from the ones the
\* displayed result was made with, and the one pending timeout carries the new
\* settings.
C8_Witness ==
  /\ mediaState.sourceType = "image"
  /\ settings.pixelSize = 2
  /\ mediaState.processedUrl = processImage(Files[blobs[originalImageRef]], DEFAULT_SETTINGS).url
  /\ mediaState.processedUrl # processImage(Files[blobs[originalImageRef]], settings).url
  /\ debounceTimers = {[id |-> effectTimeout, settings |-> settings]}

\* C9 (as claimed): object URLs are numbered in the order of the selections; the
\* session never goes back to an earlier selection than the one it holds.
C9_SessionNeverGoesBack ==
  [][mediaState'.originalUrl >= mediaState.originalUrl]_vars

\* C10 (as claimed): once no image load is pending, at most one object URL made
\* by handleFileUpload is not revoked.
C10_AtMostOneLiveUrl ==
  pendingLoads = {} => Cardinality((1..Len(blobs)) \ revoked) <= 1

\* C11: an animation-frame callback of updateVideoFrame is scheduled only while
\* the component is mounted and the source is a ready video: the loop effect's
\* cleanup cancels the scheduled callback when a file selection resets
\* isVideoReady, when sourceType changes and when the component is torn down.
\* The cleanup with nothing scheduled cancels nothing and is an ordinary step.
C11_NoDanglingCallback ==
  rafPending # {} => (mounted /\ mediaState.sourceType = "video" /\ isVideoReady)

\* C11 witness: the component was torn down while the loop of a ready video was
\* running with settings its ticks render with; nothing is scheduled any more.
C11_Witness ==
  /\ ~mounted
  /\ mediaState.sourceType = "video"
  /\ isVideoReady
  /\ settings.pixelSize = 2
  /\ canvasRef # BlankCanvas
  /\ requestRef # 0
  /\ rafPending = {}

\* C12 (as claimed): a progress interval timer runs only while the export it was
\* started for is in progress: in every state each running timer belongs to the
\* mounted video and isExporting is true.
C12_NoTimerAfterExport ==
  \A i \in progressIntervals : mediaState.isExporting /\ i.video = VideoRef(mediaState)

\* C13 (as claimed): whatever the platform's codec support, isExporting is true
\* only with an active recorder: one that records and listens for the end of
\* the mounted video.
C13_ExportingHasRecorder ==
  mediaState.isExporting =>
    \E l \in endedListeners :
      /\ l.video = VideoRef(mediaState)
      /\ [id |-> l.recorder, state |-> "recording"] \in recorders

(***************************************************************************)
(* services/geminiService.ts and runAiAnalysis.                            *)
(***************************************************************************)
\* the object {} 
EmptySuggestion == [f \in {} |-> 0]

\* objects the collaborator's response text can hold: nothing, one field out of
\* its range, all five fields in range
AiObjects ==
  { EmptySuggestion,
    [contrast |-> 259],
    [pixelSize |-> 2, contrast |-> 0, brightness |-> 0, threshold |-> 128,
     mode |-> "THRESHOLD"] }

\* response.text: absent, not JSON, the JSON text null, or the JSON text of an object
AiTexts ==
  { [kind |-> "absent"], [kind |-> "unparsable"], [kind |-> "null"] } \cup
  { [kind |-> "object", object |-> o] : o \in AiObjects }

\* what one call of analyzeImageStyle meets: the constructor of line 6 throws,
\* the request of line 9 fails, or the response arrives with some text
AiRuns ==
  { [client |-> "throws"], [client |-> "ok", request |-> "fails"] } \cup
  { [client |-> "ok", request |-> "ok", text |-> t] : t \in AiTexts }

\* Lines 4-54: analyzeImageStyle.  rejected: the returned promise rejects;
\* otherwise it resolves with value (truthy: whether `if (suggested)` takes it).
\* Line 6 is outside the try block of lines 8-53.
analyzeImageStyle(run) ==
  IF run.client = "throws"
  THEN [rejected |-> TRUE, truthy |-> FALSE, value |-> EmptySuggestion]
  ELSE IF run.request = "fails" \/ run.text.kind = "unparsable"
       THEN [rejected |-> FALSE, truthy |-> TRUE, value |-> EmptySuggestion]
       ELSE CASE run.text.kind = "absent" ->
                   [rejected |-> FALSE, truthy |-> TRUE, value |-> EmptySuggestion]
              [] run.text.kind = "null" ->
                   [rejected |-> FALSE, truthy |-> FALSE, value |-> EmptySuggestion]
              [] run.text.kind = "object" ->
                   [rejected |-> FALSE, truthy |-> TRUE, value |-> run.text.object]

\* as SpreadMerge, taking the default for a field the suggestion lacks
SpreadMergeOverDefaults(prev, suggested) ==
  [f \in DOMAIN prev \cup DOMAIN suggested |->
     IF f \in DOMAIN suggested THEN suggested[f] ELSE DEFAULT_SETTINGS[f]]

\* Line 176: ({ ...prev, ...suggested })
SpreadMerge(prev, suggested) ==
  [f \in DOMAIN prev \cup DOMAIN suggested |->
     IF f \in DOMAIN suggested THEN suggested[f] ELSE prev[f]]

\* Lines 155-172 and line 319: the AI button, up to the await of line 174.
\* sourceData is a data URL whenever a source is shown.
runAiAnalysis ==
  /\ mounted
  /\ mediaState.originalUrl # NoUrl
  /\ ~isAiProcessing
  /\ isAiProcessing' = TRUE
  /\ aiPending' = TRUE
  /\ UNCHANGED <<settings, settingsIsDefault, mediaState, isVideoReady, originalImageRef,
                 requestRef, rafPending, debounceTimers, effectTimeout, blobs, revoked,
                 pendingLoads, videos, canvasRef, recorders, endedListeners,
                 progressIntervals, mounted, tvars>>

\* Lines 174-179: the awaited call settles.  A rejection leaves runAiAnalysis at
\* line 174; otherwise a truthy value is merged and isAiProcessing reset.
aiSettle(run) ==
  LET res == analyzeImageStyle(run)
      merges == mounted /\ ~res.rejected /\ res.truthy
      ns == IF merges THEN SpreadMerge(settings, res.value) ELSE settings
  IN  /\ aiPending
      /\ aiPending' = FALSE
      /\ isAiProcessing' = IF res.rejected /\ mounted THEN isAiProcessing ELSE FALSE
      /\ settings' = ns
      /\ settingsIsDefault' = IF merges THEN FALSE ELSE settingsIsDefault
      /\ Commit(merges, ns, mediaState.sourceType, isVideoReady, originalImageRef,
                rafPending, debounceTimers)
      /\ UNCHANGED <<mediaState, isVideoReady, originalImageRef, blobs, revoked,
                     pendingLoads, videos, canvasRef, recorders, endedListeners,
                     progressIntervals, mounted, tvars>>

\* the stills among Files
ImageFiles == {f \in 1..Len(Files) : Files[f].type = "image"}

NextAi ==
  \/ \E f \in ImageFiles : handleFileUpload(f)
  \/ \E l \in pendingLoads : imgOnload(l)
  \/ \E v \in PixelSizeStops : changePixelSize(v)
  \/ resetAll
  \/ \E t \in debounceTimers : debounceFire(t)
  \/ runAiAnalysis
  \/ \E run \in AiRuns : aiSettle(run)

\* the still-image path with the AI auto-tune
SpecAi == Init /\ [][NextAi]_vars

\* C14 (as claimed): runAiAnalysis always reaches its end: once no call of
\* analyzeImageStyle is awaited, isAiProcessing is false again.
C14_AiProcessingEnds == ~aiPending => ~isAiProcessing

\* C15: every settled call of analyzeImageStyle leaves each settings field the
\* suggestion does not hold at its previous value; a rejected call, a falsy
\* result and the empty suggestion {} leave the whole configuration as it was.
C15_EmptyMergeIsNoOp ==
  [][\A run \in AiRuns :
       aiSettle(run) =>
         LET res == analyzeImageStyle(run)
         IN  /\ DOMAIN settings' = DOMAIN settings
             /\ \A f \in DOMAIN settings \ DOMAIN res.value : settings'[f] = settings[f]
             /\ (res.rejected \/ ~res.truthy \/ res.value = EmptySuggestion)
                  => settings' = settings]_vars

\* C15 witness: the suggestion {contrast: 259} was merged into settings whose
\* pixelSize the slider had set; pixelSize and mode are the ones from before.
C15_Witness ==
  /\ ~aiPending
  /\ ~isAiProcessing
  /\ settings.contrast = 259
  /\ settings.pixelSize = 2
  /\ settings.mode = "BAYER"
  /\ settings.threshold = 128

\* the recognized ranges of the sliders (lines 291-297)
InRecognizedRanges(s) ==
  /\ s.pixelSize \in 1..24
  /\ s.contrast \in -100..100
  /\ s.threshold \in 0..255

\* C16 (as claimed): every configuration a debounce timeout hands to
\* processImage, and so to applyFiltersToCanvas, is inside the recognized
\* ranges; in particular its contrast is never 259.
C16_EngineSettingsInRange ==
  [][\A t \in debounceTimers : debounceFire(t) => InRecognizedRanges(t.settings)]_vars

(***************************************************************************)
(* Further claims about applyFiltersToCanvas (SpecTransform).              *)
(***************************************************************************)
\* the configuration with invert toggled and colorA and colorB swapped
InvertCounterpart(s) ==
  [s EXCEPT !.invert = ~s.invert, !.colorA = s.colorB, !.colorB = s.colorA]

\* C17: invert law.  In every non-stochastic mode the processed working buffer
\* and the output of a completed call equal those of the same source under the
\* configuration with invert toggled and the two colours swapped.
C17_InvertLaw ==
  tsettings.mode # "STOCHASTIC" =>
    /\ tpc = "processed" =>
         tdata = ProcessedData(DrawnData(tsource, tempCanvas.width, tempCanvas.height),
                               tempCanvas.width, InvertCounterpart(tsettings), trand)
    /\ tpc = "done" =>
         outputCanvas =
           applyFiltersToCanvas(tsource, InvertCounterpart(tsettings), trand, BlankCanvas).canvas

\* C17 witness: a completed call with invert = true in BAYER mode whose output
\* shows both colours.
C17_Witness ==
  /\ tpc = "done"
  /\ tsettings.invert
  /\ tsettings.mode = "BAYER"
  /\ \E p, q \in 1..Len(outputCanvas.px) : outputCanvas.px[p] # outputCanvas.px[q]

\* colorA and colorB of a configuration as RGBA, by the hand-made table PaletteRGBA
\* is made from
ColorARGBA(s) ==
  IF s.colorA = PRESETS[1].a THEN [r |-> 0, g |-> 0, b |-> 0, a |-> 255]
  ELSE [r |-> 15, g |-> 56, b |-> 15, a |-> 255]

ColorBRGBA(s) ==
  IF s.colorA = PRESETS[1].a THEN [r |-> 255, g |-> 255, b |-> 255, a |-> 255]
  ELSE [r |-> 139, g |-> 172, b |-> 15, a |-> 255]

C19_TicksSerialized ==
  /\ Cardinality(rafPending) <= 1
  /\ \A r \in rafPending : r.id = requestRef

\* C19 witness: the ticks of a ready video had drawn when RESET ALL recreated
\* updateVideoFrame: the scheduled callback was cancelled and the one scheduled
\* now is the new one.
C19_Witness ==
  /\ Len(blobs) = 1
  /\ mediaState.sourceType = "video"
  /\ isVideoReady
  /\ settingsIsDefault
  /\ canvasRef # BlankCanvas
  /\ rafPending = {[id |-> requestRef, cb |-> Closure(DEFAULT_SETTINGS, "video", TRUE)]}

\* C20: in every video export that gets its recorder, the statements of lines
\* 215-225 pause playback first, and from then on the video is not playing
\* unless its position has been reset to 0, the 'ended' listener is registered
\* and the recorder has been started; the handler leaves the video playing from
\* position 0 with the new recorder recording.
C20_RecordingBeforePlayback ==
  [][\A sup \in CodecSupport :
       (exportVideo(sup) /\ ~RecorderThrows(sup)) =>
         LET u == VideoRef(mediaState)
             x0 == ExportEntry(videos[u])
         IN  /\ ExportAfter(x0, 1).paused
             /\ \A n \in 1..Len(ExportStatements) :
                  LET x == ExportAfter(x0, n)
                  IN  ~x.paused => (x.currentTime = 0 /\ x.listening /\ x.recording)
             /\ ~videos'[u].paused
             /\ videos'[u].currentTime = 0
             /\ \E l \in endedListeners' \ endedListeners :
                  /\ l.video = u
                  /\ [id |-> l.recorder, state |-> "recording"] \in recorders']_vars

\* C20 witness: an export has just started: the mounted video plays from position
\* 0, progress is 0 and a recorder listening for its end records.
C20_Witness ==
  /\ mediaState.isExporting
  /\ mediaState.exportProgress = 0
  /\ VideoRef(mediaState) # NoUrl
  /\ ~videos[VideoRef(mediaState)].paused
  /\ videos[VideoRef(mediaState)].currentTime = 0
  /\ \E l \in endedListeners :
       /\ l.video = VideoRef(mediaState)
       /\ [id |-> l.recorder, state |-> "recording"] \in recorders

\* C21 (as claimed): the object URL the session holds in mediaState.originalUrl,
\* which is also the src of the mounted <video>, has not been revoked: in every
\* state, an image load pending or abandoned included.
C21_HeldUrlNotRevoked ==
  mediaState.originalUrl # NoUrl => mediaState.originalUrl \notin revoked

\* C22 (as claimed): whenever isExporting is false, exportProgress is 0: once
\* recorder.onstop or a file selection has reset the export state, no firing of
\* a progress interval writes another value.
C22_IdleProgressIsZero ==
  ~mediaState.isExporting => mediaState.exportProgress = 0

\* C23 (as claimed): at most one recording session is active at any time:
\* whatever the order of export clicks, file selections and playback events, no
\* two MediaRecorders on the presentation canvas are recording at once.
C23_OneRecordingSession ==
  Cardinality({r \in recorders : r.state = "recording"}) <= 1

=============================================================================
